---------------------------- MODULE Spec2Model ----------------------------
(***************************************************************************)
(* Colour extraction pipeline of src/lib/colorUtils.ts: rgbToHex, kMeans   *)
(* and extractColors, with the upload handler of pages/Home.tsx.           *)
(*                                                                         *)
(* Numbers.  Pixel channels are bytes.  A centroid channel is the quotient *)
(* of an integer sum by a cluster length; an RGBColor is therefore kept as *)
(* three numerators over one common denominator, [r, g, b, d], reduced to  *)
(* lowest terms, and every comparison is done by cross multiplication.     *)
(* Math.sqrt is strictly increasing, so distances are compared by their    *)
(* squares.  IEEE rounding of the quotients is not modelled.               *)
(***************************************************************************)
EXTENDS Integers, Sequences, FiniteSets, TLC

VARIABLES
    \* ---- one extractColors call, from getImageData to resolve ----
    data,               \* imageData.data, one <<r, g, b, a>> per pixel
    colorCount,         \* parameter colorCount (k)
    maxIterations,      \* parameter maxIterations of kMeans
    pc,                 \* position in the onload callback
    i,                  \* index of the pixel loop (in pixels, 1-based)
    pixels,             \* const pixels: RGBColor[]
    pixelSet,           \* const pixelSet: Set<string>
    centroids,          \* kMeans: centroids
    previousCentroids,  \* kMeans: previousCentroids
    clusters,           \* kMeans: clusters
    iterations,         \* kMeans: iterations
    kMeansCalled,       \* whether kMeans was invoked by this call
    result,             \* the value the promise resolved with
    \* ---- rgbToHex applied to one colour ----
    rgb,                \* the argument
    hex,                \* the string returned by the first call
    hexAgain,           \* the string returned by a second call
    hpc,
    \* ---- the resize rule ----
    img,                \* [width, height] of the decoded image
    width,              \* let width  (a fraction <<n, d>>)
    height,             \* let height (a fraction <<n, d>>)
    canvasSize,         \* [width, height] the canvas element ends up with
    rpc,
    \* ---- two overlapping uploads sharing one canvas ----
    file,               \* call -> the decoded image of its file
    count,              \* call -> its colorCount argument
    status,             \* call -> "idle" | "loading" | "resolved" | "shown"
    seed,               \* call -> the permutation Math.random produced
    promise,            \* call -> the value its promise resolved with
    canvas,             \* the canvas element: [width, height, data]
    log,                \* the callbacks run so far, in order
    colors,             \* Home: colors
    isProcessing,       \* Home: isProcessing
    \* ---- one upload after another through ImageUploader and Home ----
    env,                \* [canvas, context]: canvasRef.current and getContext("2d") are non-null
    decodes,            \* whether the browser can decode the file in flight
    settled,            \* the promise of extractColors: "none" | "pending" | "resolved" | "rejected"
    toast               \* the last toast shown

pipeVars   == <<data, colorCount, maxIterations, pc, i, pixels, pixelSet,
                centroids, previousCentroids, clusters, iterations,
                kMeansCalled, result>>
hexVars    == <<rgb, hex, hexAgain, hpc>>
resizeVars == <<img, width, height, canvasSize, rpc>>
concVars   == <<file, count, status, seed, promise, canvas, log, colors, isProcessing>>
uploadVars == <<env, decodes, settled, toast>>
vars       == <<pipeVars, hexVars, resizeVars, concVars, uploadVars>>

-----------------------------------------------------------------------------
(* Bounds of the model *)

MaxPixels == 3          \* longest enumerated pixel buffer
MaxK == 3               \* largest colorCount tried
MaxIterBound == 1       \* maxIterations ranges over 1..MaxIterBound and the default
MaxDen == 2             \* largest denominator of a fractional channel given to rgbToHex

(* Program constants *)

DefaultMaxIterations == 100
maxDimension == 200
DefaultColorCount == 6
Opaque == 255

-----------------------------------------------------------------------------
(* Arithmetic helpers *)

Abs(x) == IF x < 0 THEN -x ELSE x

RECURSIVE GCD(_, _)
GCD(a, b) == IF b = 0 THEN a ELSE GCD(b, a % b)

RECURSIVE SeqSum(_)
SeqSum(s) == IF s = <<>> THEN 0 ELSE Head(s) + SeqSum(Tail(s))

\* an RGBColor with channels r/d, g/d, b/d, in lowest terms
MkColor(r, g, b, d) ==
    LET q == GCD(GCD(GCD(Abs(r), Abs(g)), Abs(b)), d)
    IN  [r |-> r \div q, g |-> g \div q, b |-> b \div q, d |-> d \div q]

\* pixels.push({ r, g, b })
PixelColor(p) == [r |-> p[1], g |-> p[2], b |-> p[3], d |-> 1]

-----------------------------------------------------------------------------
(* rgbToHex *)

HexDigits == <<"0", "1", "2", "3", "4", "5", "6", "7", "8", "9",
               "a", "b", "c", "d", "e", "f">>

\* Math.round of the fraction n/d: the nearest integer, halves towards +Infinity
MathRound(n, d) == (2 * n + d) \div (2 * d)

\* Number.prototype.toString(16) of a non-negative integer
RECURSIVE ToString16(_)
ToString16(n) ==
    IF n < 16 THEN <<HexDigits[n + 1]>>
    ELSE ToString16(n \div 16) \o <<HexDigits[(n % 16) + 1]>>

toHexUnpadded(n, d) == ToString16(MathRound(n, d))

\* const toHex = (value) => ...
toHex(n, d) ==
    LET h == ToString16(MathRound(n, d))
    IN  IF Len(h) = 1 THEN <<"0">> \o h ELSE h

UpperChar(c) ==
    CASE c = "a" -> "A" [] c = "b" -> "B" [] c = "c" -> "C"
      [] c = "d" -> "D" [] c = "e" -> "E" [] c = "f" -> "F"
      [] OTHER -> c

\* String.prototype.toUpperCase
toUpperCase(s) == [j \in 1..Len(s) |-> UpperChar(s[j])]

rgbToHex(c) ==
    toUpperCase(<<"#">> \o toHex(c.r, c.d) \o toHex(c.g, c.d) \o toHex(c.b, c.d))

-----------------------------------------------------------------------------
(* The pixel loop of extractColors *)

\* Number.prototype.toString() of a non-negative integer
RECURSIVE ToString10(_)
ToString10(n) ==
    IF n < 10 THEN <<HexDigits[n + 1]>>
    ELSE ToString10(n \div 10) \o <<HexDigits[(n % 10) + 1]>>

\* const key = `${r},${g},${b}`
PixelKey(p) ==
    ToString10(p[1]) \o <<",">> \o ToString10(p[2]) \o <<",">> \o ToString10(p[3])

SkipAnyAlphaButZero(p) == p[4] = 0

\* if (a < 255) continue
SkipTransparent(p) == p[4] < Opaque

\* one turn of the for loop over data, on acc = [pixels, pixelSet]
SampleStep(acc, p) ==
    IF SkipTransparent(p) THEN acc
    ELSE IF PixelKey(p) \notin acc.pixelSet
         THEN [pixels   |-> Append(acc.pixels, PixelColor(p)),
               pixelSet |-> acc.pixelSet \cup {PixelKey(p)}]
         ELSE acc

\* the whole for loop
RECURSIVE SampleFrom(_, _, _)
SampleFrom(d, n, acc) ==
    IF n > Len(d) THEN acc ELSE SampleFrom(d, n + 1, SampleStep(acc, d[n]))

SamplePixels(d) == SampleFrom(d, 1, [pixels |-> <<>>, pixelSet |-> {}])

DegenerateStrict(pxs, k) == Len(pxs) < k

\* if (pixels.length <= colorCount)
Degenerate(pxs, k) == Len(pxs) <= k

\* pixels.map(p => rgbToHex(p)), dominantColors.map(color => rgbToHex(color))
MapHex(cs) == [j \in 1..Len(cs) |-> rgbToHex(cs[j])]

-----------------------------------------------------------------------------
(* kMeans *)

\* pixels.sort(() => 0.5 - Math.random()): the array in the order perm gives
Shuffled(pxs, perm) == [j \in 1..Len(pxs) |-> pxs[perm[j]]]

SliceOneMore(pxs, k) == SubSeq(pxs, 1, IF k + 1 < Len(pxs) THEN k + 1 ELSE Len(pxs))

\* .slice(0, k)
Slice(pxs, k) == SubSeq(pxs, 1, IF k < Len(pxs) THEN k ELSE Len(pxs))

\* let minDistance = Infinity
Infinity == <<1, 0>>

\* the square of the distance of lines 64-68, as a fraction <<n, d>>
SqDistance(p, c) ==
    <<  (p.r * c.d - c.r * p.d) * (p.r * c.d - c.r * p.d)
      + (p.g * c.d - c.g * p.d) * (p.g * c.d - c.g * p.d)
      + (p.b * c.d - c.b * p.d) * (p.b * c.d - c.b * p.d),
        (p.d * c.d) * (p.d * c.d) >>

CloserOrEqual(distance, minDistance) ==
    distance[1] * minDistance[2] <= minDistance[1] * distance[2]

\* if (distance < minDistance)
Closer(distance, minDistance) ==
    distance[1] * minDistance[2] < minDistance[1] * distance[2]

\* for (let i = 0; i < centroids.length; i++) ...: the clusterIndex it ends with
RECURSIVE ScanCentroids(_, _, _, _, _)
ScanCentroids(pixel, cents, j, minDistance, clusterIndex) ==
    IF j > Len(cents) THEN clusterIndex
    ELSE LET distance == SqDistance(pixel, cents[j])
         IN  IF Closer(distance, minDistance)
             THEN ScanCentroids(pixel, cents, j + 1, distance, j)
             ELSE ScanCentroids(pixel, cents, j + 1, minDistance, clusterIndex)

\* for (const pixel of pixels) ... clusters[clusterIndex].push(pixel)
RECURSIVE AssignFrom(_, _, _, _)
AssignFrom(pxs, cents, n, cl) ==
    IF n > Len(pxs) THEN cl
    ELSE LET ci == ScanCentroids(pxs[n], cents, 1, Infinity, 1)
         IN  AssignFrom(pxs, cents, n + 1, [cl EXCEPT ![ci] = Append(@, pxs[n])])

\* clusters = Array.from({ length: k }, () => []) and the assignment loop
Assign(pxs, cents, k) == AssignFrom(pxs, cents, 1, [j \in 1..k |-> <<>>])

SumOnly(cluster) ==
    MkColor(SeqSum([n \in 1..Len(cluster) |-> cluster[n].r]),
            SeqSum([n \in 1..Len(cluster) |-> cluster[n].g]),
            SeqSum([n \in 1..Len(cluster) |-> cluster[n].b]), 1)

\* cluster.reduce(...) and the division by cluster.length
Mean(cluster) ==
    MkColor(SeqSum([n \in 1..Len(cluster) |-> cluster[n].r]),
            SeqSum([n \in 1..Len(cluster) |-> cluster[n].g]),
            SeqSum([n \in 1..Len(cluster) |-> cluster[n].b]), Len(cluster))

ResetWhenEmpty(cluster, old) ==
    IF Len(cluster) = 0 THEN MkColor(0, 0, 0, 1) ELSE Mean(cluster)

\* if (cluster.length === 0) continue; ... centroids[i] = { ... }
UpdateCentroid(cluster, old) ==
    IF Len(cluster) = 0 THEN old ELSE Mean(cluster)

\* for (let i = 0; i < k; i++) ...
UpdateCentroids(cl, cents, k) ==
    [j \in 1..Len(cents) |-> IF j <= k THEN UpdateCentroid(cl[j], cents[j]) ELSE cents[j]]

\* const hasConverged = () => ...
hasConverged(prev, cents) ==
    IF Len(prev) # Len(cents) THEN FALSE
    ELSE \A idx \in 1..Len(cents) :
            /\ Abs(cents[idx].r * prev[idx].d - prev[idx].r * cents[idx].d) < cents[idx].d * prev[idx].d
            /\ Abs(cents[idx].g * prev[idx].d - prev[idx].g * cents[idx].d) < cents[idx].d * prev[idx].d
            /\ Abs(cents[idx].b * prev[idx].d - prev[idx].b * cents[idx].d) < cents[idx].d * prev[idx].d

LoopCondOffByOne(it, maxIt, prev, cents) ==
    it <= maxIt /\ ~hasConverged(prev, cents)

\* while (iterations < maxIterations && !hasConverged())
LoopCond(it, maxIt, prev, cents) ==
    it < maxIt /\ ~hasConverged(prev, cents)

\* the while loop run to its end: the centroids returned
RECURSIVE Lloyd(_, _, _, _, _, _)
Lloyd(pxs, k, cents, prev, it, maxIt) ==
    IF LoopCond(it, maxIt, prev, cents)
    THEN Lloyd(pxs, k, UpdateCentroids(Assign(pxs, cents, k), cents, k), cents, it + 1, maxIt)
    ELSE cents

\* kMeans(pixels, k, maxIterations) when Math.random yields perm
kMeans(pxs, k, maxIt, perm) ==
    LET sh == Shuffled(pxs, perm)
    IN  Lloyd(sh, k, Slice(sh, k), <<>>, 0, maxIt)

-----------------------------------------------------------------------------
(* Inputs *)

\* the RGBA values a pixel of an enumerated buffer takes
PixelChoices ==
    { <<0, 0, 0, 255>>, <<10, 10, 10, 255>>, <<20, 20, 20, 255>>,
      <<255, 0, 0, 255>>, <<255, 255, 255, 0>>, <<10, 10, 10, 254>> }

\* six opaque greys on which an iteration of kMeans leaves a cluster empty
GreyLevels == <<0, 1, 8, 9, 10, 15>>
GreyImage == [j \in 1..Len(GreyLevels) |->
                <<GreyLevels[j], GreyLevels[j], GreyLevels[j], 255>>]

Buffers == (UNION {[1..n -> PixelChoices] : n \in 1..MaxPixels}) \cup {GreyImage}

ColorCounts == (1..MaxK) \cup {DefaultColorCount}

IterationCaps == (1..MaxIterBound) \cup {DefaultMaxIterations}

-----------------------------------------------------------------------------
(* Idle values of the variable groups a specification does not use *)

PipeIdle ==
    /\ data = <<>> /\ colorCount = 0 /\ maxIterations = 0 /\ pc = "idle"
    /\ i = 0 /\ pixels = <<>> /\ pixelSet = {} /\ centroids = <<>>
    /\ previousCentroids = <<>> /\ clusters = <<>> /\ iterations = 0
    /\ kMeansCalled = FALSE /\ result = <<>>

HexIdle ==
    /\ rgb = MkColor(0, 0, 0, 1) /\ hex = <<>> /\ hexAgain = <<>> /\ hpc = "idle"

ResizeIdle ==
    /\ img = [width |-> 0, height |-> 0] /\ width = <<0, 1>> /\ height = <<0, 1>>
    /\ canvasSize = [width |-> 0, height |-> 0] /\ rpc = "idle"

ConcIdle ==
    /\ file = <<>> /\ count = <<>> /\ status = <<>> /\ seed = <<>> /\ promise = <<>>
    /\ canvas = [width |-> 0, height |-> 0, data |-> <<>>] /\ log = <<>>
    /\ colors = <<>> /\ isProcessing = FALSE

UploadIdle ==
    /\ env = [canvas |-> TRUE, context |-> TRUE] /\ decodes = TRUE
    /\ settled = "none" /\ toast = "none"

-----------------------------------------------------------------------------
(* One extractColors call, from the pixel data on *)

\* const pixels = []; const pixelSet = new Set(); the loop about to start
Init ==
    /\ data \in Buffers
    /\ colorCount \in ColorCounts
    /\ maxIterations \in IterationCaps
    /\ pc = "scan"
    /\ i = 1
    /\ pixels = <<>>
    /\ pixelSet = {}
    /\ centroids = <<>>
    /\ previousCentroids = <<>>
    /\ clusters = <<>>
    /\ iterations = 0
    /\ kMeansCalled = FALSE
    /\ result = <<>>
    /\ HexIdle /\ ResizeIdle /\ ConcIdle /\ UploadIdle

\* one turn of for (let i = 0; i < data.length; i += 4)
ScanPixel ==
    /\ pc = "scan"
    /\ i <= Len(data)
    /\ LET acc == SampleStep([pixels |-> pixels, pixelSet |-> pixelSet], data[i])
       IN  /\ pixels' = acc.pixels
           /\ pixelSet' = acc.pixelSet
    /\ i' = i + 1
    /\ UNCHANGED <<data, colorCount, maxIterations, pc, centroids,
                   previousCentroids, clusters, iterations, kMeansCalled, result>>
    /\ UNCHANGED <<hexVars, resizeVars, concVars, uploadVars>>

\* if (pixels.length <= colorCount) { resolve(pixels.map(...)); return; }
ResolveUnique ==
    /\ pc = "scan"
    /\ i > Len(data)
    /\ Degenerate(pixels, colorCount)
    /\ result' = MapHex(pixels)
    /\ pc' = "resolved"
    /\ UNCHANGED <<data, colorCount, maxIterations, i, pixels, pixelSet, centroids,
                   previousCentroids, clusters, iterations, kMeansCalled>>
    /\ UNCHANGED <<hexVars, resizeVars, concVars, uploadVars>>

\* kMeans(pixels, colorCount): the shuffle in place, the slice, the locals
KMeansInit ==
    /\ pc = "scan"
    /\ i > Len(data)
    /\ ~Degenerate(pixels, colorCount)
    /\ \E perm \in Permutations(1..Len(pixels)) :
          /\ pixels' = Shuffled(pixels, perm)
          /\ centroids' = Slice(Shuffled(pixels, perm), colorCount)
    /\ iterations' = 0
    /\ clusters' = <<>>
    /\ previousCentroids' = <<>>
    /\ kMeansCalled' = TRUE
    /\ pc' = "test"
    /\ UNCHANGED <<data, colorCount, maxIterations, i, pixelSet, result>>
    /\ UNCHANGED <<hexVars, resizeVars, concVars, uploadVars>>

\* the loop condition holds: the assignment half of the body
AssignPixels ==
    /\ pc = "test"
    /\ LoopCond(iterations, maxIterations, previousCentroids, centroids)
    /\ clusters' = Assign(pixels, centroids, colorCount)
    /\ pc' = "update"
    /\ UNCHANGED <<data, colorCount, maxIterations, i, pixels, pixelSet, centroids,
                   previousCentroids, iterations, kMeansCalled, result>>
    /\ UNCHANGED <<hexVars, resizeVars, concVars, uploadVars>>

\* previousCentroids = [...centroids]; the update loop; iterations++
UpdateStep ==
    /\ pc = "update"
    /\ previousCentroids' = centroids
    /\ centroids' = UpdateCentroids(clusters, centroids, colorCount)
    /\ iterations' = iterations + 1
    /\ pc' = "test"
    /\ UNCHANGED <<data, colorCount, maxIterations, i, pixels, pixelSet, clusters,
                   kMeansCalled, result>>
    /\ UNCHANGED <<hexVars, resizeVars, concVars, uploadVars>>

\* the loop condition fails: return centroids; map to hex; resolve(hexColors)
ResolveDominant ==
    /\ pc = "test"
    /\ ~LoopCond(iterations, maxIterations, previousCentroids, centroids)
    /\ result' = MapHex(centroids)
    /\ pc' = "resolved"
    /\ UNCHANGED <<data, colorCount, maxIterations, i, pixels, pixelSet, centroids,
                   previousCentroids, clusters, iterations, kMeansCalled>>
    /\ UNCHANGED <<hexVars, resizeVars, concVars, uploadVars>>

Next ==
    \/ ScanPixel
    \/ ResolveUnique
    \/ KMeansInit
    \/ AssignPixels
    \/ UpdateStep
    \/ ResolveDominant

Spec == Init /\ [][Next]_vars

-----------------------------------------------------------------------------
(* Vocabulary of the properties *)

\* the RGB triples of the fully opaque pixels of a buffer
OpaqueColors(d) ==
    { <<d[n][1], d[n][2], d[n][3]>> : n \in {m \in 1..Len(d) : d[m][4] = 255} }

\* the positions at which an opaque colour occurs for the first time
FirstOccurrences(d) ==
    { n \in 1..Len(d) :
        /\ d[n][4] = 255
        /\ \A m \in 1..(n - 1) :
              ~(d[m][4] = 255 /\ <<d[m][1], d[m][2], d[m][3]>> = <<d[n][1], d[n][2], d[n][3]>>) }

\* the j-th smallest element of a set of positions
Nth(S, j) == CHOOSE n \in S : Cardinality({m \in S : m <= n}) = j

UpperDigits == <<"0", "1", "2", "3", "4", "5", "6", "7", "8", "9",
                 "A", "B", "C", "D", "E", "F">>

\* s matches #[0-9A-F]{6}
IsHexColor(s) ==
    /\ Len(s) = 7
    /\ s[1] = "#"
    /\ \A j \in 2..7 : \E v \in 1..16 : UpperDigits[v] = s[j]

DigitValue(c) == (CHOOSE v \in 1..16 : UpperDigits[v] = c) - 1

\* the three two-digit fields of a well-formed hex colour, read back
ParseHex(s) ==
    << 16 * DigitValue(s[2]) + DigitValue(s[3]),
       16 * DigitValue(s[4]) + DigitValue(s[5]),
       16 * DigitValue(s[6]) + DigitValue(s[7]) >>

\* the integer v is a nearest integer of the fraction n/d
IsNearest(v, n, d) == 2 * Abs(n - v * d) <= d

InKMeans == kMeansCalled /\ pc \in {"test", "update", "resolved"}

-----------------------------------------------------------------------------
\* C1: the palette has exactly colorCount entries when the image has more
\* than colorCount distinct opaque colours (kMeans returns exactly colorCount
\* centroids), exactly as many entries as distinct opaque colours otherwise
\* (none for an all-transparent image), and never more than colorCount.
PaletteLength ==
    LET n == Cardinality(OpaqueColors(data))
    IN  /\ InKMeans => Len(centroids) = colorCount /\ n > colorCount
        /\ pc = "resolved" =>
              /\ Len(result) = (IF n > colorCount THEN colorCount ELSE n)
              /\ Len(result) <= colorCount
              /\ (n > colorCount) = kMeansCalled

PaletteLengthWitness ==
    /\ pc = "resolved"
    /\ kMeansCalled
    /\ Cardinality(OpaqueColors(data)) = 3
    /\ colorCount = 2
    /\ Len(result) = 2

\* C2: at every turn of the pixel loop and ever after, the samples are the
\* RGB triples of the pixels scanned so far whose alpha is 255, each once:
\* a pixel with alpha < 255 adds nothing, equal opaque pixels add one sample,
\* and an all-transparent buffer resolves with the empty palette.
SamplesAreOpaqueDistinct ==
    LET seen == OpaqueColors(SubSeq(data, 1, i - 1))
    IN  /\ { <<pixels[n].r, pixels[n].g, pixels[n].b>> : n \in 1..Len(pixels) } = seen
        /\ \A n \in 1..Len(pixels) : pixels[n].d = 1
        /\ Len(pixels) = Cardinality(seen)
        /\ (pc = "resolved" /\ OpaqueColors(data) = {}) => result = <<>>

SamplesWitness ==
    /\ pc = "resolved"
    /\ Len(data) = 3
    /\ data[1] = data[3]
    /\ data[1][4] = 255
    /\ data[2][4] = 254
    /\ Len(pixels) = 1

\* C3: when the image has at most colorCount distinct opaque colours, kMeans
\* is not invoked and the palette is the hex form of each distinct colour in
\* the order of its first occurrence in the scan, and nothing else.
DegeneratePalette ==
    (pc = "resolved" /\ Cardinality(OpaqueColors(data)) <= colorCount) =>
        LET first == FirstOccurrences(data)
        IN  /\ ~kMeansCalled
            /\ Len(result) = Cardinality(first)
            /\ \A j \in 1..Len(result) :
                  /\ IsHexColor(result[j])
                  /\ ParseHex(result[j]) =
                        << data[Nth(first, j)][1], data[Nth(first, j)][2], data[Nth(first, j)][3] >>

DegenerateWitness ==
    /\ pc = "resolved"
    /\ ~kMeansCalled
    /\ data = << <<255, 0, 0, 255>>, <<10, 10, 10, 255>>, <<255, 0, 0, 255>> >>
    /\ colorCount = 2
    /\ result = << <<"#", "F", "F", "0", "0", "0", "0">>, <<"#", "0", "A", "0", "A", "0", "A">> >>

\* every channel of every centroid moved by less than 1.0 in the last iteration
MovedLessThanOne ==
    \A j \in 1..colorCount :
        LET c == centroids[j]
            q == previousCentroids[j]
        IN  /\ Abs(c.r * q.d - q.r * c.d) < c.d * q.d
            /\ Abs(c.g * q.d - q.g * c.d) < c.d * q.d
            /\ Abs(c.b * q.d - q.b * c.d) < c.d * q.d

\* C5: kMeans runs at least one and at most maxIterations iterations: the
\* first always runs, a further one runs only if fewer than maxIterations
\* have run and some channel moved by 1.0 or more in the preceding one, and
\* the loop is left exactly when one of the two fails.
IterationBounds ==
    /\ InKMeans => iterations <= maxIterations
    /\ (kMeansCalled /\ pc = "update") =>
          /\ iterations < maxIterations
          /\ iterations = 0 \/ ~MovedLessThanOne
    /\ (kMeansCalled /\ pc = "resolved") =>
          /\ iterations >= 1
          /\ iterations = maxIterations \/ MovedLessThanOne

IterationWitness ==
    /\ pc = "resolved"
    /\ kMeansCalled
    /\ iterations >= 2
    /\ iterations < maxIterations

\* the least and the greatest value of a channel over the samples
MinR == CHOOSE v \in {pixels[n].r : n \in 1..Len(pixels)} : \A n \in 1..Len(pixels) : v <= pixels[n].r
MaxR == CHOOSE v \in {pixels[n].r : n \in 1..Len(pixels)} : \A n \in 1..Len(pixels) : v >= pixels[n].r
MinG == CHOOSE v \in {pixels[n].g : n \in 1..Len(pixels)} : \A n \in 1..Len(pixels) : v <= pixels[n].g
MaxG == CHOOSE v \in {pixels[n].g : n \in 1..Len(pixels)} : \A n \in 1..Len(pixels) : v >= pixels[n].g
MinB == CHOOSE v \in {pixels[n].b : n \in 1..Len(pixels)} : \A n \in 1..Len(pixels) : v <= pixels[n].b
MaxB == CHOOSE v \in {pixels[n].b : n \in 1..Len(pixels)} : \A n \in 1..Len(pixels) : v >= pixels[n].b

\* C6: after the initialisation and after every iteration, every channel of
\* every centroid lies between the least and the greatest value of that
\* channel over the samples, hence in [0,255].
CentroidsInRange ==
    InKMeans =>
        \A j \in 1..Len(centroids) :
            LET c == centroids[j]
            IN  /\ c.d >= 1
                /\ MinR * c.d <= c.r /\ c.r <= MaxR * c.d
                /\ MinG * c.d <= c.g /\ c.g <= MaxG * c.d
                /\ MinB * c.d <= c.b /\ c.b <= MaxB * c.d
                /\ 0 <= c.r /\ c.r <= 255 * c.d
                /\ 0 <= c.g /\ c.g <= 255 * c.d
                /\ 0 <= c.b /\ c.b <= 255 * c.d

CentroidsInRangeWitness ==
    /\ InKMeans
    /\ iterations >= 1
    /\ \E j \in 1..Len(centroids) : centroids[j].d = 3 /\ centroids[j].r = 34

\* C9: after an iteration, the centroid of a cluster that received samples
\* is the per-channel arithmetic mean of exactly those samples, and the
\* centroid of a cluster that received none is the one it was before.
UpdateIsMeanOrKept ==
    (InKMeans /\ pc # "update" /\ iterations >= 1) =>
        /\ Len(centroids) = Len(previousCentroids)
        /\ Len(clusters) = Len(centroids)
        /\ \A j \in 1..Len(centroids) :
              LET cl == clusters[j]
                  c  == centroids[j]
              IN  IF Len(cl) = 0
                  THEN c = previousCentroids[j]
                  ELSE /\ c.r * Len(cl) = c.d * SeqSum([n \in 1..Len(cl) |-> cl[n].r])
                       /\ c.g * Len(cl) = c.d * SeqSum([n \in 1..Len(cl) |-> cl[n].g])
                       /\ c.b * Len(cl) = c.d * SeqSum([n \in 1..Len(cl) |-> cl[n].b])

UpdateWitness ==
    /\ InKMeans
    /\ pc = "test"
    /\ iterations >= 2
    /\ \E j \in 1..Len(clusters) :
          /\ clusters[j] = <<>>
          /\ centroids[j] = previousCentroids[j]
          /\ centroids[j].d = 2
    /\ \E j \in 1..Len(clusters) : Len(clusters[j]) >= 2

\* the square of the Euclidean distance from sample p to centroid c is at
\* most (strictly less than) the one from p to centroid e
SqNum(p, c) ==
      (p.r * c.d - c.r) * (p.r * c.d - c.r)
    + (p.g * c.d - c.g) * (p.g * c.d - c.g)
    + (p.b * c.d - c.b) * (p.b * c.d - c.b)
NotFarther(p, c, e) == SqNum(p, c) * e.d * e.d <= SqNum(p, e) * c.d * c.d
Nearer(p, c, e) == SqNum(p, c) * e.d * e.d < SqNum(p, e) * c.d * c.d

\* the number of times sample p occurs in cluster cl
Occurrences(cl, p) == Cardinality({n \in 1..Len(cl) : cl[n] = p})

\* C10: in an iteration every sample is put in exactly one cluster, that of
\* a centroid at least distance, the lowest-indexed one among those; the
\* clusters partition the samples.
AssignmentIsNearest ==
    (kMeansCalled /\ pc = "update") =>
        /\ Len(clusters) = colorCount
        /\ SeqSum([j \in 1..Len(clusters) |-> Len(clusters[j])]) = Len(pixels)
        /\ \A n \in 1..Len(pixels) :
              \E j \in 1..Len(clusters) :
                  /\ Occurrences(clusters[j], pixels[n]) = 1
                  /\ \A m \in 1..Len(clusters) :
                        m # j => Occurrences(clusters[m], pixels[n]) = 0
                  /\ \A m \in 1..Len(centroids) :
                        NotFarther(pixels[n], centroids[j], centroids[m])
                  /\ \A m \in 1..(j - 1) :
                        Nearer(pixels[n], centroids[j], centroids[m])

AssignmentWitness ==
    /\ kMeansCalled
    /\ pc = "update"
    /\ \E n \in 1..Len(pixels) : \E j, m \in 1..Len(centroids) :
          /\ j < m
          /\ Occurrences(clusters[j], pixels[n]) = 1
          /\ NotFarther(pixels[n], centroids[m], centroids[j])

-----------------------------------------------------------------------------
(* rgbToHex on integer and fractional channels *)

\* the numerators over denominator d of the channel values tried: around
\* 0, 9.5, 15.5 and 254.5, up to 255
ChannelNumerators(d) == { x * d + o : x \in {0, 9, 15, 254}, o \in 0..d }

HexInputs ==
    UNION { [r : ChannelNumerators(d), g : ChannelNumerators(d),
             b : ChannelNumerators(d), d : {d}] : d \in 1..MaxDen }

InitHex ==
    /\ rgb \in HexInputs
    /\ hex = <<>>
    /\ hexAgain = <<>>
    /\ hpc = "start"
    /\ PipeIdle /\ ResizeIdle /\ ConcIdle /\ UploadIdle

FormatHex ==
    /\ hpc = "start"
    /\ hex' = rgbToHex(rgb)
    /\ hpc' = "once"
    /\ UNCHANGED <<rgb, hexAgain, pipeVars, resizeVars, concVars, uploadVars>>

FormatAgain ==
    /\ hpc = "once"
    /\ hexAgain' = rgbToHex(rgb)
    /\ hpc' = "twice"
    /\ UNCHANGED <<rgb, hex, pipeVars, resizeVars, concVars, uploadVars>>

NextHex == FormatHex \/ FormatAgain

SpecHex == InitHex /\ [][NextHex]_vars

-----------------------------------------------------------------------------
(* The resize rule of extractColors *)

\* the fraction n/d in lowest terms
Frac(n, d) == <<n \div GCD(n, d), d \div GCD(n, d)>>

\* the widths and heights a decoded image takes
Dimensions == {1, 2, 100, 150, 200, 201, 300, 400, 1000}

\* the conversion of a number to the integer type of canvas.width and of the
\* arguments of getImageData: the fraction cut to its integer part
ToLong(f) == f[1] \div f[2]

\* let width = img.width; let height = img.height; (the image has loaded)
InitResize ==
    /\ img \in [width : Dimensions, height : Dimensions]
    /\ width = <<img.width, 1>>
    /\ height = <<img.height, 1>>
    /\ canvasSize = [width |-> 300, height |-> 150]
    /\ rpc = "loaded"
    /\ PipeIdle /\ HexIdle /\ ConcIdle /\ UploadIdle

\* if (width > height && width > maxDimension) ... else if (height > maxDimension) ...
Resize ==
    /\ rpc = "loaded"
    /\ IF img.width > img.height /\ img.width > maxDimension
       THEN /\ height' = Frac(img.height * maxDimension, img.width)
            /\ width' = <<maxDimension, 1>>
       ELSE IF img.height > maxDimension
            THEN /\ width' = Frac(img.width * maxDimension, img.height)
                 /\ height' = <<maxDimension, 1>>
            ELSE UNCHANGED <<width, height>>
    /\ rpc' = "resized"
    /\ UNCHANGED <<img, canvasSize, pipeVars, hexVars, concVars, uploadVars>>

\* canvas.width = width; canvas.height = height; ctx.drawImage(...)
SizeCanvas ==
    /\ rpc = "resized"
    /\ canvasSize' = [width |-> ToLong(width), height |-> ToLong(height)]
    /\ rpc' = "drawn"
    /\ UNCHANGED <<img, width, height, pipeVars, hexVars, concVars, uploadVars>>

\* ctx.getImageData(0, 0, width, height) returns the pixels
ReadPixels ==
    /\ rpc = "drawn"
    /\ ToLong(width) # 0 /\ ToLong(height) # 0
    /\ rpc' = "sampled"
    /\ UNCHANGED <<img, width, height, canvasSize, pipeVars, hexVars, concVars, uploadVars>>

\* ctx.getImageData(0, 0, width, height) throws: a side is zero
ReadPixelsThrows ==
    /\ rpc = "drawn"
    /\ ToLong(width) = 0 \/ ToLong(height) = 0
    /\ rpc' = "threw"
    /\ UNCHANGED <<img, width, height, canvasSize, pipeVars, hexVars, concVars, uploadVars>>

NextResize == Resize \/ SizeCanvas \/ ReadPixels \/ ReadPixelsThrows

SpecResize == InitResize /\ [][NextResize]_vars

IsPositiveInteger(f) == f[2] = 1 /\ f[1] >= 1

\* C8: after the resize rule the dimensions used for sampling are positive
\* integers: the source dimensions when neither exceeds 200, and otherwise
\* the larger side is 200 and the other is scaled by the same ratio.
ResizedDimensions ==
    rpc # "loaded" =>
        /\ IsPositiveInteger(width)
        /\ IsPositiveInteger(height)
        /\ (img.width <= maxDimension /\ img.height <= maxDimension) =>
              width = <<img.width, 1>> /\ height = <<img.height, 1>>
        /\ (img.width > maxDimension \/ img.height > maxDimension) =>
              /\ width[1] * img.height * height[2] = height[1] * img.width * width[2]
              /\ IF img.width >= img.height THEN width = <<maxDimension, 1>>
                                            ELSE height = <<maxDimension, 1>>

-----------------------------------------------------------------------------
(* Two uploads in flight on the one canvas of Home *)

Calls == {1, 2}

Transparent == <<0, 0, 0, 0>>

\* the decoded images of the files uploaded, already at their drawn size
Images ==
    { [width |-> 2, height |-> 1,
       data |-> << <<255, 0, 0, 255>>, <<255, 255, 255, 0>> >>],
      [width |-> 2, height |-> 1,
       data |-> << <<0, 0, 0, 255>>, <<10, 10, 10, 255>> >>],
      [width |-> 1, height |-> 2,
       data |-> << <<20, 20, 20, 128>>, <<20, 20, 20, 255>> >>],
      [width |-> 3, height |-> 1,
       data |-> << <<0, 0, 0, 255>>, <<10, 10, 10, 255>>, <<20, 20, 20, 255>> >>],
      [width |-> 1, height |-> 3,
       data |-> << <<255, 255, 255, 0>>, <<255, 0, 0, 255>>, <<10, 10, 10, 254>> >>] }

\* the colorCount arguments tried: one that sends three colours to kMeans,
\* and the 6 that Home passes
CallColorCounts == {2, DefaultColorCount}

KeepBitmap(cv, w, h) ==
    [width |-> w, height |-> h,
     data |-> IF Len(cv.data) = w * h THEN cv.data ELSE [j \in 1..(w * h) |-> Transparent]]

\* canvas.width = width; canvas.height = height: the bitmap is resized and
\* cleared to transparent black
SetCanvasSize(cv, w, h) ==
    [width |-> w, height |-> h, data |-> [j \in 1..(w * h) |-> Transparent]]

\* one channel of source s over destination e, source alpha sa
Blend(s, e, sa) == (s * sa + e * (255 - sa) + 127) \div 255

\* a source pixel composited over a destination pixel (source-over)
Over(s, e) ==
    IF s[4] = 255 \/ e[4] = 0 THEN s
    ELSE IF s[4] = 0 THEN e
    ELSE IF e[4] = 255
         THEN <<Blend(s[1], e[1], s[4]), Blend(s[2], e[2], s[4]), Blend(s[3], e[3], s[4]), 255>>
         ELSE <<s[1], s[2], s[3], s[4] + ((e[4] * (255 - s[4])) \div 255)>>

\* ctx.drawImage(img, 0, 0, width, height) on a canvas of the image's size
DrawImage(cv, im) ==
    [cv EXCEPT !.data = [j \in 1..Len(cv.data) |-> Over(im.data[j], cv.data[j])]]

\* ctx.getImageData(0, 0, width, height).data: a pixel of alpha 0 reads as
\* transparent black
GetImageData(cv) ==
    [j \in 1..Len(cv.data) |-> IF cv.data[j][4] = 0 THEN Transparent ELSE cv.data[j]]

\* Home after mount: no upload yet, the canvas untouched (its 300 x 150
\* bitmap, all transparent, is not enumerated)
InitConc ==
    /\ file = [c \in Calls |-> [width |-> 0, height |-> 0, data |-> <<>>]]
    /\ count = [c \in Calls |-> 0]
    /\ status = [c \in Calls |-> "idle"]
    /\ seed = [c \in Calls |-> <<>>]
    /\ promise = [c \in Calls |-> <<>>]
    /\ canvas = [width |-> 300, height |-> 150, data |-> <<>>]
    /\ log = <<>>
    /\ colors = <<>>
    /\ isProcessing = FALSE
    /\ PipeIdle /\ HexIdle /\ ResizeIdle /\ UploadIdle

\* handleImageUpload up to its await, extractColors up to img.src = ...
StartUpload(c) ==
    /\ status[c] = "idle"
    /\ \E im \in Images : file' = [file EXCEPT ![c] = im]
    /\ \E k \in CallColorCounts : count' = [count EXCEPT ![c] = k]
    /\ status' = [status EXCEPT ![c] = "loading"]
    /\ isProcessing' = TRUE
    /\ log' = Append(log, <<"start", c>>)
    /\ UNCHANGED <<seed, promise, canvas, colors, pipeVars, hexVars, resizeVars, uploadVars>>

\* img.onload of call c, from canvasRef.current to resolve(...)
OnLoad(c) ==
    /\ status[c] = "loading"
    /\ LET cv  == DrawImage(SetCanvasSize(canvas, file[c].width, file[c].height), file[c])
           pxs == SamplePixels(GetImageData(cv)).pixels
       IN  /\ canvas' = cv
           /\ IF Degenerate(pxs, count[c])
              THEN /\ promise' = [promise EXCEPT ![c] = MapHex(pxs)]
                   /\ seed' = seed
              ELSE \E perm \in Permutations(1..Len(pxs)) :
                      /\ seed' = [seed EXCEPT ![c] = perm]
                      /\ promise' = [promise EXCEPT ![c] =
                            MapHex(kMeans(pxs, count[c], DefaultMaxIterations, perm))]
    /\ status' = [status EXCEPT ![c] = "resolved"]
    /\ log' = Append(log, <<"load", c>>)
    /\ UNCHANGED <<file, count, colors, isProcessing, pipeVars, hexVars, resizeVars, uploadVars>>

\* handleImageUpload after its await: setColors(...); finally setIsProcessing(false)
ShowColors(c) ==
    /\ status[c] = "resolved"
    /\ colors' = promise[c]
    /\ isProcessing' = FALSE
    /\ status' = [status EXCEPT ![c] = "shown"]
    /\ log' = Append(log, <<"show", c>>)
    /\ UNCHANGED <<file, count, seed, promise, canvas, pipeVars, hexVars, resizeVars, uploadVars>>

NextConc == \E c \in Calls : StartUpload(c) \/ OnLoad(c) \/ ShowColors(c)

SpecConc == InitConc /\ [][NextConc]_vars

\* the palette of an image processed with nothing else in flight
PaletteAlone(im, k, perm) ==
    LET pxs == SamplePixels(im.data).pixels
    IN  IF Len(pxs) <= k THEN MapHex(pxs)
        ELSE MapHex(kMeans(pxs, k, DefaultMaxIterations, perm))

\* C7: whatever the order of the load callbacks of two calls in flight on
\* the same canvas, each call resolves with the palette of its own image
\* alone, under the permutation its own shuffle drew.
CallsDoNotInterfere ==
    \A c \in Calls :
        status[c] \in {"resolved", "shown"} =>
            promise[c] = PaletteAlone(file[c], count[c], seed[c])

CallsWitness ==
    /\ Len(log) >= 4
    /\ SubSeq(log, 1, 4) = << <<"start", 1>>, <<"start", 2>>, <<"load", 2>>, <<"load", 1>> >>
    /\ Len(file[1].data) = Len(file[2].data)
    /\ file[1].data[1][4] = 0
    /\ file[2].data[1][4] = 255
    /\ count[2] = 2
    /\ seed[2] # <<>>
    /\ promise[1] = << <<"#", "F", "F", "0", "0", "0", "0">> >>

-----------------------------------------------------------------------------
(* Uploads through ImageUploader, handleImageUpload and extractColors *)

\* the widths and heights of the images uploaded
UploadDimensions == {1, 100, 300, 1000}

\* Home mounted: nothing uploaded, the uploader enabled
InitUpload ==
    /\ env \in [canvas : BOOLEAN, context : BOOLEAN]
    /\ decodes = TRUE
    /\ settled = "none"
    /\ toast = "none"
    /\ PipeIdle /\ HexIdle /\ ResizeIdle /\ ConcIdle

\* handleDrop / handleInputChange, handleFileSelect: the type is not accepted
DropUnsupported ==
    /\ ~isProcessing
    /\ toast' = "format"
    /\ UNCHANGED <<env, decodes, settled, pipeVars, hexVars, resizeVars, concVars>>

\* handleFileSelect: the file is larger than 5MB
DropTooLarge ==
    /\ ~isProcessing
    /\ toast' = "size"
    /\ UNCHANGED <<env, decodes, settled, pipeVars, hexVars, resizeVars, concVars>>

\* a valid file: handleImageUpload up to its await, extractColors up to the
\* end of the promise executor (img.src set, both callbacks installed)
StartProcessing ==
    /\ ~isProcessing
    /\ isProcessing' = TRUE
    /\ img' \in [width : UploadDimensions, height : UploadDimensions]
    /\ decodes' \in BOOLEAN
    /\ settled' = "pending"
    /\ rpc' = "loading"
    /\ UNCHANGED <<env, toast, width, height, canvasSize, pipeVars, hexVars,
                   file, count, status, seed, promise, canvas, log, colors>>

\* img.onerror
ImageError ==
    /\ rpc = "loading"
    /\ ~decodes
    /\ settled' = "rejected"
    /\ rpc' = "failed"
    /\ UNCHANGED <<env, decodes, toast, img, width, height, canvasSize,
                   pipeVars, hexVars, concVars>>

\* img.onload: if (!canvas) { reject(...); return; }
LoadNoCanvas ==
    /\ rpc = "loading"
    /\ decodes
    /\ ~env.canvas
    /\ settled' = "rejected"
    /\ rpc' = "failed"
    /\ UNCHANGED <<env, decodes, toast, img, width, height, canvasSize,
                   pipeVars, hexVars, concVars>>

\* img.onload: the canvas is there; let width = img.width; let height = img.height
LoadImage ==
    /\ rpc = "loading"
    /\ decodes
    /\ env.canvas
    /\ width' = <<img.width, 1>>
    /\ height' = <<img.height, 1>>
    /\ rpc' = "loaded"
    /\ UNCHANGED <<env, decodes, settled, toast, img, canvasSize,
                   pipeVars, hexVars, concVars>>

\* canvas.width = width; canvas.height = height; if (!ctx) { reject(...); return; }
NoContext ==
    /\ rpc = "resized"
    /\ ~env.context
    /\ canvasSize' = [width |-> ToLong(width), height |-> ToLong(height)]
    /\ settled' = "rejected"
    /\ rpc' = "failed"
    /\ UNCHANGED <<env, decodes, toast, img, width, height,
                   pipeVars, hexVars, concVars>>

\* canvas.width = width; canvas.height = height; the context is there; drawImage
SizeCanvasWithContext == env.context /\ SizeCanvas

\* the pixel loop, the palette, resolve(...): the pixels read are some image's
ProcessPixels ==
    /\ rpc = "sampled"
    /\ \E im \in Images :
          LET pxs == SamplePixels(im.data).pixels
          IN  IF Degenerate(pxs, DefaultColorCount)
              THEN result' = MapHex(pxs)
              ELSE \E perm \in Permutations(1..Len(pxs)) :
                      result' = MapHex(kMeans(pxs, DefaultColorCount, DefaultMaxIterations, perm))
    /\ settled' = "resolved"
    /\ rpc' = "finished"
    /\ UNCHANGED <<env, decodes, toast, img, width, height, canvasSize,
                   data, colorCount, maxIterations, pc, i, pixels, pixelSet,
                   centroids, previousCentroids, clusters, iterations, kMeansCalled,
                   hexVars, concVars>>

\* handleImageUpload after its await: setColors, toast.success, finally
UploadSucceeded ==
    /\ isProcessing
    /\ settled = "resolved"
    /\ colors' = result
    /\ toast' = "success"
    /\ isProcessing' = FALSE
    /\ UNCHANGED <<env, decodes, settled, pipeVars, hexVars, resizeVars,
                   file, count, status, seed, promise, canvas, log>>

\* handleImageUpload: catch, toast.error, finally
UploadFailed ==
    /\ isProcessing
    /\ settled = "rejected"
    /\ toast' = "error"
    /\ isProcessing' = FALSE
    /\ UNCHANGED <<env, decodes, settled, pipeVars, hexVars, resizeVars,
                   file, count, status, seed, promise, canvas, log, colors>>

\* what the browser does on its own: callbacks of the image, promise reactions
BrowserStep ==
    \/ ImageError
    \/ LoadNoCanvas
    \/ LoadImage
    \/ Resize
    \/ NoContext
    \/ SizeCanvasWithContext
    \/ ReadPixels
    \/ ReadPixelsThrows
    \/ ProcessPixels
    \/ UploadSucceeded
    \/ UploadFailed

NextUpload ==
    \/ DropUnsupported
    \/ DropTooLarge
    \/ StartProcessing
    \/ BrowserStep

\* the event loop runs every callback and promise reaction that is due
SpecUpload == InitUpload /\ [][NextUpload]_vars /\ WF_vars(BrowserStep)

\* C11: every upload that starts processing eventually finishes: once
\* handleImageUpload has set isProcessing, the promise of extractColors is
\* eventually resolved or rejected and isProcessing is set back to false.
UploadEventuallyFinishes == isProcessing ~> ~isProcessing

=============================================================================
